---------------------------- MODULE Spec2Model ----------------------------
(***************************************************************************)
(* fastmatcher: a multi-pattern (Aho-Corasick) line matcher, ACMatcher,     *)
(* and the Python programs of the repository that drive it:                 *)
(*   web/main.py   the FastAPI job layer (start / poll / cancel / expire),   *)
(*   scan_test.py  the batched asynchronous directory scan,                  *)
(*   simple_test.py, build_and_test_whl.py  direct calls of the matcher.     *)
(* The matcher itself is a compiled extension whose source is not part of    *)
(* the tree; its operators below follow the written design (sections 3-7).   *)
(*                                                                           *)
(* Strings are sequences of one-character strings, so that folding,          *)
(* trimming, splitting into lines and substring search are computed.         *)
(***************************************************************************)
EXTENDS Integers, Sequences, FiniteSets, TLC

(***************************************************************************)
(* Bounds of the model.                                                      *)
(***************************************************************************)
MaxPatterns == 2      \* patterns handed to one matcher
MaxLines == 3         \* lines of an in-memory text
MaxContext == 1       \* context window size
MaxFiles == 3         \* paths handed to one scan
MaxBatchSize == 2     \* batch sizes 1..MaxBatchSize
MaxTicks == 3         \* clock advances

(***************************************************************************)
(* Characters.                                                               *)
(***************************************************************************)
NL == "\n"
Blank == " "
Letters == {"a", "b", "A"}

Min(x, y) == IF x <= y THEN x ELSE y
Max(x, y) == IF x >= y THEN x ELSE y

RECURSIVE Concat(_)
Concat(ss) == IF ss = <<>> THEN <<>> ELSE Head(ss) \o Concat(Tail(ss))

SeqRange(s) == {s[i] : i \in 1..Len(s)}

(* All sequences over S of length lo..hi. *)
SeqsOf(S, lo, hi) == UNION {[1..n -> S] : n \in lo..hi}

(***************************************************************************)
(* 4.1 Automaton builder.  A trie state is identified with the string that   *)
(* leads to it, the root with the empty string.                              *)
(***************************************************************************)
Root == <<>>

(* Simple, length-preserving case folding (to lower case). *)
FoldChar(c) == IF c = "A" THEN "a" ELSE c
FoldStr(s) == [i \in 1..Len(s) |-> FoldChar(s[i])]

(* The canonical form patterns are inserted in and input is scanned in. *)
Canon(m, s) == IF m.ignore_case THEN FoldStr(s) ELSE s

(* Leading and trailing blanks removed (str.strip / trimming). *)
RECURSIVE LStrip(_)
LStrip(s) == IF s # <<>> /\ Head(s) = Blank THEN LStrip(Tail(s)) ELSE s
RECURSIVE RStrip(_)
RStrip(s) ==
    IF s # <<>> /\ s[Len(s)] = Blank THEN RStrip(SubSeq(s, 1, Len(s) - 1)) ELSE s
Strip(s) == RStrip(LStrip(s))

RECURSIVE NonBlankTrimmed(_)
NonBlankTrimmed(v) ==
    IF v = <<>> THEN <<>>
    ELSE (IF Strip(Head(v)) # <<>> THEN <<Strip(Head(v))>> ELSE <<>>)
         \o NonBlankTrimmed(Tail(v))

EmptyPatternSet == "EmptyPatternSet"
NoError == "none"
NoLineNo == 0

(* ACMatcher(patterns, ignore_case, context, with_lineno). *)
NewMatcher(patterns, ic, ctx, wl) ==
    [error |-> IF NonBlankTrimmed(patterns) = <<>> THEN EmptyPatternSet
               ELSE NoError,
     patterns |-> NonBlankTrimmed(patterns), ignore_case |-> ic,
     context |-> ctx, with_lineno |-> wl]

Built(m) == m.error = NoError

TrieStates(m) ==
    UNION {{SubSeq(Canon(m, m.patterns[i]), 1, k) :
                k \in 0..Len(m.patterns[i])} : i \in 1..Len(m.patterns)}

(* The original pattern indices that fold to the path of state s. *)
Terminal_First(m, s) ==
    {i \in 1..Len(m.patterns) :
        /\ Canon(m, m.patterns[i]) = s
        /\ \A j \in 1..(i - 1) : Canon(m, m.patterns[j]) # s}
Terminal(m, s) == {i \in 1..Len(m.patterns) : Canon(m, m.patterns[i]) = s}

(* Failure links, as the breadth-first pass computes them: the link of a     *)
(* state is found from its parent's link by walking links until a state     *)
(* with a child on the same symbol is met.                                   *)
RECURSIVE FailLink(_, _, _)
RECURSIVE Descend(_, _, _, _)
Descend(m, Q, f, c) ==
    IF Append(f, c) \in Q THEN Append(f, c)
    ELSE IF f = Root THEN Root
    ELSE Descend(m, Q, FailLink(m, Q, f), c)
FailLink(m, Q, s) ==
    IF Len(s) <= 1 THEN Root
    ELSE Descend(m, Q, FailLink(m, Q, SubSeq(s, 1, Len(s) - 1)), s[Len(s)])

(* Output sets, merged through the failure links. *)
RECURSIVE Output(_, _, _)
Output_Unmerged(m, Q, s) == Terminal(m, s)
Output(m, Q, s) ==
    IF s = Root THEN {}
    ELSE Terminal(m, s) \cup Output(m, Q, FailLink(m, Q, s))

(* The frozen automaton: states, failure links, output sets. *)
Build(m) ==
    LET Q == TrieStates(m)
    IN [states |-> Q,
        fail |-> [s \in Q |-> FailLink(m, Q, s)],
        out |-> [s \in Q |-> Output(m, Q, s)]]

(***************************************************************************)
(* 4.2 Scan engine: one automaton step on symbol c from state s.             *)
(***************************************************************************)
RECURSIVE Goto(_, _, _)
Goto(A, s, c) ==
    IF Append(s, c) \in A.states THEN Append(s, c)
    ELSE IF s = Root THEN Root
    ELSE Goto(A, A.fail[s], c)

(***************************************************************************)
(* 4.3 Line and context indexer, 4.4 aggregator.  The cursor of one scan:    *)
(*   state    automaton state            line_no  1-based current line       *)
(*   cur      text of the current line   kws      keywords seen on it         *)
(*   window   last `context` completed lines                                  *)
(*   pending  records still waiting for following lines, with the number      *)
(*            of lines each still needs                                       *)
(*   out      finished records                                                *)
(***************************************************************************)
NoFile == "<text>"

NewCursor ==
    [state |-> Root, line_no |-> 1, cur |-> <<>>, kws |-> <<>>,
     window |-> <<>>, pending |-> <<>>, out |-> <<>>]

(* The keyword texts of the pattern ids in `ids`, in ascending id order,    *)
(* appended to kws unless already there. *)
RECURSIVE AddKeywords(_, _, _)
AddKeywords_NoDedup(m, kws, ids) ==
    IF ids = {} THEN kws
    ELSE LET i == CHOOSE x \in ids : \A y \in ids : x <= y
         IN AddKeywords(m, Append(kws, m.patterns[i]), ids \ {i})
AddKeywords(m, kws, ids) ==
    IF ids = {} THEN kws
    ELSE LET i == CHOOSE x \in ids : \A y \in ids : x <= y
             kw == m.patterns[i]
         IN AddKeywords(m, IF kw \in SeqRange(kws) THEN kws ELSE Append(kws, kw),
                        ids \ {i})

LastN_All(s, n) == s
LastN(s, n) == SubSeq(s, Max(1, Len(s) - n + 1), Len(s))

(* One more following line for every pending record. *)
Feed(pending, line) ==
    [j \in 1..Len(pending) |->
        [rec |-> [pending[j].rec EXCEPT !.lines = Append(@, line)],
         need |-> pending[j].need - 1]]

Ready(pending) == SelectSeq(pending, LAMBDA e : e.need = 0)
Waiting(pending) == SelectSeq(pending, LAMBDA e : e.need > 0)
Recs(pending) == [j \in 1..Len(pending) |-> pending[j].rec]

(* End of the current line. *)
EndLine(m, cu) ==
    LET fed == Feed(cu.pending, cu.cur)
        rec == [file_path |-> NoFile,
                line_no |-> IF m.with_lineno THEN cu.line_no ELSE NoLineNo,
                keywords |-> cu.kws,
                lines |-> Append(cu.window, cu.cur)]
        new == IF cu.kws = <<>> THEN <<>>
               ELSE <<[rec |-> rec, need |-> m.context]>>
        all == fed \o new
    IN  [state |-> Root, line_no |-> cu.line_no + 1, cur |-> <<>>, kws |-> <<>>,
         window |-> LastN(Append(cu.window, cu.cur), m.context),
         pending |-> Waiting(all),
         out |-> cu.out \o Recs(Ready(all))]

(* One symbol of the text. *)
ScanChar(m, A, cu, ch) ==
    IF ch = NL THEN EndLine(m, cu)
    ELSE LET s == Goto(A, cu.state, IF m.ignore_case THEN FoldChar(ch) ELSE ch)
         IN [cu EXCEPT !.state = s, !.cur = Append(@, ch),
                       !.kws = AddKeywords(m, @, A.out[s])]

(* End of the text: an unterminated last line ends, pending records flush. *)
Finish(m, cu) ==
    LET end == IF cu.cur # <<>> THEN EndLine(m, cu) ELSE cu
    IN end.out \o Recs(end.pending)

RECURSIVE ScanFrom(_, _, _, _, _)
ScanFrom(m, A, t, i, cu) ==
    IF i > Len(t) THEN Finish(m, cu)
    ELSE ScanFrom(m, A, t, i + 1, ScanChar(m, A, cu, t[i]))

(* matcher.search(text) *)
Search(m, t) == ScanFrom(m, Build(m), t, 1, NewCursor)

(***************************************************************************)
(* 4.5 Streaming file scanner.  A file is either unreadable or has a text.   *)
(* The iterator of one search_files_iter(paths) call:                        *)
(*   paths, pos   the paths and how many of them were opened                 *)
(*   status       "open", "exhausted" (ended normally), "closed" (consumer   *)
(*                stopped pulling) or "raised"                              *)
(*   yielded      the MatchInfo records yielded so far                       *)
(*   diagnostics  the side channel: paths that could not be read             *)
(***************************************************************************)
FilePaths == {"f1", "f2", "f3"}
FileContent(p) ==
    CASE p = "f1" -> <<"a", "b", "A", NL, "b", "a", NL>>
      [] p = "f2" -> <<"b", "a">>
      [] OTHER    -> <<NL, "a", "b", "A", NL, NL>>

WithPath(recs, p) == [j \in 1..Len(recs) |-> [recs[j] EXCEPT !.file_path = p]]

NewIter(ps) ==
    [paths |-> ps, pos |-> 0, status |-> "open", yielded |-> <<>>,
     diagnostics |-> <<>>]

(* A path that cannot be opened or read: skipped, reported on the side. *)
OnFileError_Abort(it, p) ==
    [it EXCEPT !.pos = @ + 1, !.status = "raised"]
OnFileError(it, p) ==
    [it EXCEPT !.pos = @ + 1, !.diagnostics = Append(@, p)]

(* The records of one readable file: its content searched, each record     *)
(* carrying the path.  The scans of the matchers the programs build are      *)
(* computed once and looked up. *)
KnownPatternLists ==
    {<<<<"a", "b">>, <<"A">>>>, <<<<"a">>>>, <<<<"a", "b">>>>,
     <<<<"A">>, <<"b", "A">>>>}
KnownMatchers ==
    {NewMatcher(ps, ic, ctx, FALSE) :
        ps \in KnownPatternLists, ic \in BOOLEAN, ctx \in 0..MaxContext}
ScanTable ==
    [m \in KnownMatchers |->
        [p \in FilePaths |-> WithPath(Search(m, FileContent(p)), p)]]
ScanOfFile(m, p) ==
    IF m \in DOMAIN ScanTable THEN ScanTable[m][p]
    ELSE WithPath(Search(m, FileContent(p)), p)

(* The iterator advanced over its next path. *)
IterStep(m, it, bad) ==
    LET p == it.paths[it.pos + 1]
    IN IF p \in bad THEN OnFileError(it, p)
       ELSE [it EXCEPT !.pos = @ + 1, !.yielded = @ \o ScanOfFile(m, p)]

RECURSIVE IterRun(_, _, _)
IterRun(m, it, bad) ==
    IF it.status # "open" THEN it
    ELSE IF it.pos = Len(it.paths) THEN [it EXCEPT !.status = "exhausted"]
    ELSE IterRun(m, IterStep(m, it, bad), bad)

(* list(matcher.search_files_iter(paths)) *)
SearchFilesIter(m, ps, bad) == IterRun(m, NewIter(ps), bad).yielded

(***************************************************************************)
(* batched(iterable, size): a generator over an iterator `it` of the input. *)
(*   src, pos   the input and how much of it the iterator has consumed       *)
(*   out        the batches yielded so far                                   *)
(*   done       the generator returned                                       *)
(***************************************************************************)
Islice(src, pos, n) == SubSeq(src, pos + 1, Min(pos + n, Len(src)))

NewBatched(src, size) ==
    [src |-> src, size |-> size, pos |-> 0, out |-> <<>>, done |-> FALSE]

(* One resumption of the generator: the next batch, or the end. *)
BatchedNext_DropShort(g) ==
    LET batch == Islice(g.src, g.pos, g.size)
    IN IF Len(batch) < g.size THEN [g EXCEPT !.done = TRUE, !.pos = @ + Len(batch)]
       ELSE [g EXCEPT !.pos = @ + Len(batch), !.out = Append(@, batch)]
BatchedNext(g) ==
    LET batch == Islice(g.src, g.pos, g.size)
    IN IF batch = <<>> THEN [g EXCEPT !.done = TRUE]
       ELSE [g EXCEPT !.pos = @ + Len(batch), !.out = Append(@, batch)]

(***************************************************************************)
(* web/main.py: the job layer.                                               *)
(***************************************************************************)
SEARCH_RESULT_EXPIRE == 3600
(* The clock advances in steps of half the retention time. *)
ClockStep == SEARCH_RESULT_EXPIRE \div 2

None == "None"
NoParams == {}
UserCancelled == "user cancelled the search"
KeyError == "KeyError"
ListingError == "OSError"

(* A float progress value, as the fraction it was computed from. *)
Fraction(n, d) == [num |-> n, den |-> d]
Zero == Fraction(0, 1)
One == Fraction(1, 1)

(* SearchRequest.validate_keywords: the cleaned list, or a ValueError. *)
validate_keywords_KeepBlank(v) ==
    IF v = <<>> THEN [ok |-> FALSE, value |-> <<>>]
    ELSE [ok |-> TRUE, value |-> [j \in 1..Len(v) |-> Strip(v[j])]]
validate_keywords(v) ==
    IF v = <<>> THEN [ok |-> FALSE, value |-> <<>>]
    ELSE IF NonBlankTrimmed(v) = <<>> THEN [ok |-> FALSE, value |-> <<>>]
    ELSE [ok |-> TRUE, value |-> NonBlankTrimmed(v)]

(* The entry start_search stores for a new search. *)
NewResult(t) ==
    [create_time |-> t, progress |-> Zero, completed |-> FALSE,
     processed |-> 0, total |-> 0, results |-> <<>>, count |-> 0,
     error |-> None, search_params |-> NoParams]

(* search_files_batch: the list search_sync built, or [] when the executor  *)
(* call raised. *)
BatchMatches(scan) == IF scan.status = "raised" THEN <<>> ELSE scan.yielded

(* all_matches.extend(matches) *)
Extend_Front(all, matches) == matches \o all
Extend(all, matches) == all \o matches

(* The loop's test of the cancellation event. *)
IsSet_Never(ev) == FALSE
IsSet(ev) == ev

(* The progress entries written after a batch. *)
ProgressUpdate_Swapped(r, processed, total) ==
    [r EXCEPT !.progress = IF total # 0 THEN Fraction(processed, total) ELSE Zero,
              !.processed = total,
              !.total = processed]
ProgressUpdate(r, processed, total) ==
    [r EXCEPT !.progress = IF total # 0 THEN Fraction(processed, total) ELSE Zero,
              !.processed = processed,
              !.total = total]

(* The final update of the entry. *)
FinalUpdate_DropOnCancel(r, all, req) ==
    [r EXCEPT !.progress = One, !.completed = TRUE,
              !.results = IF r.error = None THEN all ELSE <<>>,
              !.count = Len(all), !.search_params = {req}]
FinalUpdate(r, all, req) ==
    [r EXCEPT !.progress = One, !.completed = TRUE, !.results = all,
              !.count = Len(all), !.search_params = {req}]

(* The except clause of run_full_search. *)
RecordError(r, e) == [r EXCEPT !.error = e, !.completed = TRUE]

(* cancel_search's marking of the entry. *)
MarkCancelled(r) == [r EXCEPT !.error = UserCancelled, !.completed = TRUE]

(* cleanup_expired_results: the entries that stay. *)
Expired_AtAge(r, t) == t - r.create_time >= SEARCH_RESULT_EXPIRE
Expired(r, t) == t - r.create_time > SEARCH_RESULT_EXPIRE
Unexpired(rs, t) == [s \in {x \in DOMAIN rs : ~Expired(rs[x], t)} |-> rs[s]]

(* Dictionary assignment and removal. *)
Put_Only(d, k, v) == [x \in {k} |-> v]
Put(d, k, v) == [x \in DOMAIN d \cup {k} |-> IF x = k THEN v ELSE d[x]]
Pop(d, k) == [x \in DOMAIN d \ {k} |-> d[x]]

(***************************************************************************)
(* Input domains.                                                            *)
(***************************************************************************)
PatternUniverse == {<<"a", "b">>, <<"b", "A">>, <<"a">>, <<"A">>}
PatternLists == SeqsOf(PatternUniverse, 1, MaxPatterns)
BlankPatternLists == {<<>>, <<<<Blank>>>>}
LineUniverse == {<<"a", "b", "A">>, <<"b", "a">>, <<>>}

RECURSIVE JoinLines(_)
JoinLines(ls) ==
    IF ls = <<>> THEN <<>>
    ELSE IF Len(ls) = 1 THEN ls[1]
    ELSE ls[1] \o <<NL>> \o JoinLines(Tail(ls))

Texts == {JoinLines(ls) : ls \in SeqsOf(LineUniverse, 0, MaxLines)}
PathLists == SeqsOf(FilePaths, 0, MaxFiles)
BatchSizes == 1..MaxBatchSize

(* The matchers the file scans are run with: as scan_test.py and            *)
(* simple_test.py build theirs, with_lineno left at its default. *)
ScanPatternLists == {<<<<"a", "b">>, <<"A">>>>, <<<<"a">>>>}
(* Directory listings: the files of the root in the order rglob meets them. *)
Listings == {ps \in PathLists : \A i, j \in 1..Len(ps) : ps[i] = ps[j] => i = j}

(* scan_test.py main: one matcher, ignore_case on, context 1. *)
CliMatcher == NewMatcher(<<<<"a", "b">>, <<"A">>>>, TRUE, 1, FALSE)

(* The job layer's inputs: search ids, keyword lists as posted (two that    *)
(* validate_keywords rejects, two it accepts), the directories explored.     *)
AllIds == {"s1", "s2"}
KeywordInputs ==
    {<<>>, <<<<Blank>>, <<>>>>, <<<<Blank, "a", "b">>, <<Blank>>>>,
     <<<<"A">>, <<"b", "A">>>>}
WebContext == 1
WebListings == {<<>>, <<"f1">>, <<"f1", "f2">>, <<"f1", "f2", "f3">>}
WebUnreadable == {"f2"}

FileMatchers ==
    {NewMatcher(ps, ic, ctx, FALSE) :
        ps \in ScanPatternLists, ic \in BOOLEAN, ctx \in 0..MaxContext}

(***************************************************************************)
(* State.                                                                    *)
(*   entry       which program of the repository runs                        *)
(*   matcher     the ACMatcher of the test programs                          *)
(*   unreadable  the paths of the file system that cannot be read            *)
(*   dir         the listing of the scanned directory                        *)
(*   text, result, called   the search(text) call and what it returned       *)
(*   iter        the iterator of a search_files_iter call                    *)
(*   gen         the generator of a batched call                             *)
(*   cli         scan_test.py's scan_dir_async and its consumer              *)
(* web/main.py:                                                              *)
(*   now             the clock (time.time())                                 *)
(*   pool            the search ids uuid4 has not yet returned               *)
(*   search_tasks    the keys of search_tasks (each maps to its own event)   *)
(*   event           the cancellation event of each search                   *)
(*   search_results  the dictionary of result entries                        *)
(*   task            the run_full_search task of each search                 *)
(*   cleanups        the scheduled _cleanup_task calls                       *)
(*   response        the last HTTP response                                  *)
(*   hist            what has happened to each search (history only)         *)
(***************************************************************************)
VARIABLES entry, matcher, unreadable, dir, text, result, called, iter, gen,
          cli, now, pool, search_tasks, event, search_results, task,
          cleanups, response, hist

setupVars == <<entry, matcher, unreadable, dir>>
searchVars == <<text, result, called>>
webVars == <<now, pool, search_tasks, event, search_results, task, cleanups,
             response, hist>>
vars == <<entry, matcher, unreadable, dir, text, result, called, iter, gen,
          cli, now, pool, search_tasks, event, search_results, task,
          cleanups, response, hist>>

NoMatcher == NewMatcher(<<>>, FALSE, 0, FALSE)
NoSearch == text = <<>> /\ result = <<>> /\ called = FALSE
NoIter == iter = NewIter(<<>>)
NoGen == gen = NewBatched(<<>>, 1)

IdleCli == [pc |-> "idle", batch_size |-> 1, results |-> <<>>, yielded |-> <<>>]
NoCli == cli = IdleCli

NoReq == [keywords |-> <<>>, context |-> 0, batch_size |-> 1]
IdleTask ==
    [pc |-> "none", req |-> NoReq, matcher |-> NoMatcher, files |-> <<>>,
     total_files |-> 0, all_matches |-> <<>>, processed_files |-> 0,
     batches |-> NewBatched(<<>>, 1), batch |-> <<>>, scan |-> NewIter(<<>>)]
(* History of a search: when start_search stored its entry; files opened    *)
(* by the executor and files submitted                                       *)
(* to it, both also as they stood when the event was first set; the files   *)
(* of the batches whose scan completed; the records search_files_iter       *)
(* yielded; whether a scan raised. *)
NoHistory ==
    [created |-> 0, opened |-> 0, submitted |-> 0, cancelled |-> FALSE,
     openedAtCancel |-> 0,
     submittedAtCancel |-> 0, scanned |-> <<>>, yielded |-> <<>>,
     failed |-> FALSE]
NoBody == {}
NoResponse ==
    [op |-> "none", id |-> "", raw |-> <<>>, status |-> "", body |-> NoBody]

NoWeb ==
    /\ now = 0
    /\ pool = {}
    /\ search_tasks = {}
    /\ event = [s \in AllIds |-> FALSE]
    /\ search_results = <<>>
    /\ task = [s \in AllIds |-> IdleTask]
    /\ cleanups = {}
    /\ response = NoResponse
    /\ hist = [s \in AllIds |-> NoHistory]

(***************************************************************************)
(* build_and_test_whl.py test_installation: a matcher is constructed and    *)
(* search(text) is called on an in-memory text.                              *)
(***************************************************************************)
SearchInit ==
    /\ entry = "search"
    /\ \E ps \in PatternLists \cup BlankPatternLists, ic \in BOOLEAN,
          ctx \in 0..MaxContext, wl \in BOOLEAN :
            matcher = NewMatcher(ps, ic, ctx, wl)
    /\ unreadable = {}
    /\ dir = <<>>
    /\ NoSearch /\ NoIter /\ NoGen /\ NoCli /\ NoWeb

CallSearch ==
    /\ entry = "search"
    /\ ~called
    /\ Built(matcher)
    /\ \E t \in Texts :
        /\ text' = t
        /\ result' = Search(matcher, t)
    /\ called' = TRUE
    /\ UNCHANGED <<setupVars, iter, gen, cli, webVars>>

SearchNext == CallSearch
SpecSearch == SearchInit /\ [][SearchNext]_vars

(***************************************************************************)
(* simple_test.py: search_files_iter(files) consumed by a for loop.          *)
(***************************************************************************)
FilesInit ==
    /\ entry = "files"
    /\ matcher \in FileMatchers
    /\ unreadable \in SUBSET FilePaths
    /\ dir = <<>>
    /\ \E ps \in PathLists : iter = NewIter(ps)
    /\ NoSearch /\ NoGen /\ NoCli /\ NoWeb

(* The loop pulls the records of the next file. *)
IterNextFile ==
    /\ entry = "files"
    /\ iter.status = "open"
    /\ iter.pos < Len(iter.paths)
    /\ iter' = IterStep(matcher, iter, unreadable)
    /\ UNCHANGED <<setupVars, searchVars, gen, cli, webVars>>

(* The iterator is exhausted: the loop ends. *)
IterStop ==
    /\ entry = "files"
    /\ iter.status = "open"
    /\ iter.pos = Len(iter.paths)
    /\ iter' = [iter EXCEPT !.status = "exhausted"]
    /\ UNCHANGED <<setupVars, searchVars, gen, cli, webVars>>

(* The consumer stops pulling before the end. *)
IterClose ==
    /\ entry = "files"
    /\ iter.status = "open"
    /\ iter.pos < Len(iter.paths)
    /\ iter' = [iter EXCEPT !.status = "closed"]
    /\ UNCHANGED <<setupVars, searchVars, gen, cli, webVars>>

FilesNext == IterNextFile \/ IterStop \/ IterClose
SpecFiles == FilesInit /\ [][FilesNext]_vars

(***************************************************************************)
(* batched(iterable, size) driven by a for loop.                             *)
(***************************************************************************)
BatchedInit ==
    /\ entry = "batched"
    /\ matcher = NoMatcher
    /\ unreadable = {}
    /\ dir = <<>>
    /\ \E src \in PathLists, size \in BatchSizes : gen = NewBatched(src, size)
    /\ NoSearch /\ NoIter /\ NoCli /\ NoWeb

BatchedResume ==
    /\ entry = "batched"
    /\ ~gen.done
    /\ gen' = BatchedNext(gen)
    /\ UNCHANGED <<setupVars, searchVars, iter, cli, webVars>>

BatchedSpecNext == BatchedResume
SpecBatched == BatchedInit /\ [][BatchedSpecNext]_vars

(***************************************************************************)
(* scan_test.py: scan_dir_async(root, matcher, batch_size) consumed by      *)
(* main's async for.  Each batch is scanned to a list in the executor        *)
(* (search_async) and its records are then yielded one by one.               *)
(***************************************************************************)
CliInit ==
    /\ entry = "cli"
    /\ matcher = CliMatcher
    /\ unreadable \in SUBSET FilePaths
    /\ dir \in Listings
    /\ \E size \in BatchSizes : cli = [IdleCli EXCEPT !.batch_size = size]
    /\ NoSearch /\ NoIter /\ NoGen /\ NoWeb

(* files = [p async for p in iter_files_async(root)] *)
CliList ==
    /\ entry = "cli"
    /\ cli.pc = "idle"
    /\ gen' = NewBatched(dir, cli.batch_size)
    /\ cli' = [cli EXCEPT !.pc = "batching"]
    /\ UNCHANGED <<setupVars, searchVars, iter, webVars>>

(* The next batch is scanned, or the batches are exhausted. *)
CliNextBatch ==
    /\ entry = "cli"
    /\ cli.pc = "batching"
    /\ gen' = BatchedNext(gen)
    /\ IF gen'.done
       THEN /\ cli' = [cli EXCEPT !.pc = "done"]
            /\ UNCHANGED iter
       ELSE /\ iter' = IterRun(matcher, NewIter(gen'.out[Len(gen'.out)]), unreadable)
            /\ cli' = [cli EXCEPT !.pc = "yielding", !.results = iter'.yielded]
    /\ UNCHANGED <<setupVars, searchVars, webVars>>

(* for r in results: yield r *)
CliYield ==
    /\ entry = "cli"
    /\ cli.pc = "yielding"
    /\ IF cli.results = <<>>
       THEN cli' = [cli EXCEPT !.pc = "batching"]
       ELSE cli' = [cli EXCEPT !.results = Tail(@),
                               !.yielded = Append(@, Head(cli.results))]
    /\ UNCHANGED <<setupVars, searchVars, iter, gen, webVars>>

CliNext == CliList \/ CliNextBatch \/ CliYield

(***************************************************************************)
(* web/main.py.  Handlers and task steps run on one event loop, so each is  *)
(* atomic from one await to the next; the executor thread of a batch runs    *)
(* beside them, file by file.                                                *)
(***************************************************************************)
WebInit ==
    /\ entry = "web"
    /\ matcher = NoMatcher
    /\ unreadable = WebUnreadable
    /\ dir \in WebListings
    /\ NoSearch /\ NoIter /\ NoGen /\ NoCli
    /\ now = 0
    /\ pool = {"s1"}
    /\ search_tasks = {}
    /\ event = [s \in AllIds |-> FALSE]
    /\ search_results = <<>>
    /\ task = [s \in AllIds |-> IdleTask]
    /\ cleanups = {}
    /\ response = NoResponse
    /\ hist = [s \in AllIds |-> NoHistory]

Reply(op, s, v, status) ==
    [op |-> op, id |-> s, raw |-> v, status |-> status, body |-> NoBody]
ReplyWith(op, s, body) ==
    [op |-> op, id |-> s, raw |-> <<>>, status |-> "200", body |-> {body}]

(* POST /api/start-search.  The request model is validated before the      *)
(* handler runs; a ValueError of a validator rejects the request.            *)
start_search ==
    /\ entry = "web"
    /\ \E v \in KeywordInputs, bs \in BatchSizes :
        LET kw == validate_keywords(v)
        IN IF ~kw.ok
           THEN /\ response' = Reply("start-search", "", v, "rejected")
                /\ UNCHANGED <<now, pool, search_tasks, event, search_results,
                               task, cleanups, hist>>
           ELSE \E s \in pool :
                /\ pool' = pool \ {s}
                /\ search_results' = Put(search_results, s, NewResult(now))
                /\ event' = [event EXCEPT ![s] = FALSE]
                /\ search_tasks' = search_tasks \cup {s}
                /\ task' = [task EXCEPT ![s] =
                       [IdleTask EXCEPT !.pc = "queued",
                                        !.req = [keywords |-> kw.value,
                                                 context |-> WebContext,
                                                 batch_size |-> bs]]]
                /\ response' = Reply("start-search", s, v, "started")
                /\ hist' = [hist EXCEPT ![s].created = now]
                /\ UNCHANGED <<now, cleanups>>
    /\ UNCHANGED <<setupVars, searchVars, iter, gen, cli>>

(* The except clause of run_full_search, entered with the task's locals t:  *)
(* the error is recorded in the entry; without an entry the clause itself    *)
(* raises KeyError, which leaves the task. *)
Except(s, e, t) ==
    IF s \in DOMAIN search_results
    THEN /\ search_results' = [search_results EXCEPT ![s] = RecordError(@, e)]
         /\ task' = [task EXCEPT ![s] = [t EXCEPT !.pc = "failed"]]
    ELSE /\ task' = [task EXCEPT ![s] = [t EXCEPT !.pc = "crashed"]]
         /\ UNCHANGED search_results

(* run_full_search up to the loop: the matcher is built, the files listed. *)
RunStart(s) ==
    /\ entry = "web"
    /\ task[s].pc = "queued"
    /\ LET t == task[s]
           m == NewMatcher(t.req.keywords, TRUE, t.req.context, FALSE)
       IN \E listed \in BOOLEAN :
           IF ~Built(m) THEN Except(s, EmptyPatternSet, t)
           ELSE IF ~listed THEN Except(s, ListingError, [t EXCEPT !.matcher = m])
           ELSE /\ task' = [task EXCEPT ![s] =
                       [t EXCEPT !.pc = "loop", !.matcher = m, !.files = dir,
                                 !.total_files = Len(dir),
                                 !.batches = NewBatched(dir, t.req.batch_size)]]
                /\ UNCHANGED search_results
    /\ UNCHANGED <<setupVars, searchVars, iter, gen, cli, now, pool,
                   search_tasks, event, cleanups, response, hist>>

(* The head of the loop: the next batch is taken and, unless the event is   *)
(* set, submitted to the executor; when the batches are exhausted or the     *)
(* event is set, the final update is made. *)
RunLoop(s) ==
    /\ entry = "web"
    /\ task[s].pc = "loop"
    /\ LET t == task[s]
           g == BatchedNext(t.batches)
       IN IF g.done \/ IsSet(event[s])
          THEN /\ IF s \in DOMAIN search_results
                  THEN /\ search_results' = [search_results EXCEPT ![s] =
                              FinalUpdate(@, t.all_matches, t.req)]
                       /\ task' = [task EXCEPT ![s] =
                              [t EXCEPT !.pc = "done", !.batches = g]]
                  ELSE Except(s, KeyError, [t EXCEPT !.batches = g])
               /\ UNCHANGED hist
          ELSE LET batch == g.out[Len(g.out)]
               IN /\ task' = [task EXCEPT ![s] =
                         [t EXCEPT !.pc = "scanning", !.batches = g,
                                   !.batch = batch, !.scan = NewIter(batch)]]
                  /\ hist' = [hist EXCEPT ![s].submitted = @ + Len(batch)]
                  /\ UNCHANGED search_results
    /\ UNCHANGED <<setupVars, searchVars, iter, gen, cli, now, pool,
                   search_tasks, event, cleanups, response>>

(* The executor thread: search_files_iter opens and scans its next file. *)
ScanFile(s) ==
    /\ entry = "web"
    /\ task[s].pc = "scanning"
    /\ task[s].scan.status = "open"
    /\ task[s].scan.pos < Len(task[s].scan.paths)
    /\ LET next == IterStep(task[s].matcher, task[s].scan, unreadable)
       IN /\ task' = [task EXCEPT ![s].scan = next]
          /\ hist' = [hist EXCEPT
                 ![s].opened = @ + 1,
                 ![s].yielded = @ \o SubSeq(next.yielded,
                                            Len(task[s].scan.yielded) + 1,
                                            Len(next.yielded))]
    /\ UNCHANGED <<setupVars, searchVars, iter, gen, cli, now, pool,
                   search_tasks, event, search_results, cleanups, response>>

(* The executor call raises instead. *)
ScanRaise(s) ==
    /\ entry = "web"
    /\ task[s].pc = "scanning"
    /\ task[s].scan.status = "open"
    /\ task[s].scan.pos < Len(task[s].scan.paths)
    /\ task' = [task EXCEPT ![s].scan.status = "raised"]
    /\ hist' = [hist EXCEPT ![s].failed = TRUE]
    /\ UNCHANGED <<setupVars, searchVars, iter, gen, cli, now, pool,
                   search_tasks, event, search_results, cleanups, response>>

(* The batch has returned: its matches are accumulated, progress stored. *)
AfterBatch(s) ==
    /\ entry = "web"
    /\ task[s].pc = "scanning"
    /\ \/ task[s].scan.status = "raised"
       \/ task[s].scan.pos = Len(task[s].scan.paths)
    /\ LET t == task[s]
           processed == t.processed_files + Len(t.batch)
           t2 == [t EXCEPT !.all_matches = Extend(@, BatchMatches(t.scan)),
                           !.processed_files = processed]
       IN /\ IF s \in DOMAIN search_results
             THEN /\ search_results' = [search_results EXCEPT ![s] =
                         ProgressUpdate(@, processed, t.total_files)]
                  /\ task' = [task EXCEPT ![s] = [t2 EXCEPT !.pc = "loop"]]
             ELSE Except(s, KeyError, t2)
          /\ hist' = [hist EXCEPT ![s].scanned =
                 IF t.scan.status = "raised" THEN @ ELSE @ \o t.batch]
    /\ UNCHANGED <<setupVars, searchVars, iter, gen, cli, now, pool,
                   search_tasks, event, cleanups, response>>

(* POST /api/cancel-search *)
cancel_search(s) ==
    /\ entry = "web"
    /\ IF s \notin search_tasks
       THEN /\ response' = Reply("cancel-search", s, <<>>, "404")
            /\ UNCHANGED <<event, search_results, cleanups, hist>>
       ELSE /\ event' = [event EXCEPT ![s] = TRUE]
            /\ search_results' =
                   IF s \in DOMAIN search_results
                   THEN [search_results EXCEPT ![s] = MarkCancelled(@)]
                   ELSE search_results
            /\ cleanups' = cleanups \cup {s}
            /\ response' = Reply("cancel-search", s, <<>>, "cancelled")
            /\ hist' = IF hist[s].cancelled THEN hist
                       ELSE [hist EXCEPT
                                ![s].cancelled = TRUE,
                                ![s].openedAtCancel = hist[s].opened,
                                ![s].submittedAtCancel = hist[s].submitted]
    /\ UNCHANGED <<setupVars, searchVars, iter, gen, cli, now, pool,
                   search_tasks, task>>

(* GET /api/search-status/{search_id} *)
StatusOf(r) ==
    [progress |-> r.progress, completed |-> r.completed, error |-> r.error,
     processed |-> r.processed, total |-> r.total, count |-> r.count]

get_search_status(s) ==
    /\ entry = "web"
    /\ response' = IF s \notin DOMAIN search_results
                   THEN Reply("search-status", s, <<>>, "404")
                   ELSE ReplyWith("search-status", s, StatusOf(search_results[s]))
    /\ UNCHANGED <<setupVars, searchVars, iter, gen, cli, now, pool,
                   search_tasks, event, search_results, task, cleanups, hist>>

(* GET /api/download-json/{search_id} *)
DownloadOf(r) ==
    [search_params |-> r.search_params, total_files |-> r.total,
     matched_count |-> r.count, results |-> r.results,
     completed |-> r.completed, error |-> r.error]

download_json(s) ==
    /\ entry = "web"
    /\ response' = IF s \notin DOMAIN search_results
                   THEN Reply("download-json", s, <<>>, "404")
                   ELSE IF ~search_results[s].completed
                   THEN Reply("download-json", s, <<>>, "400")
                   ELSE ReplyWith("download-json", s, DownloadOf(search_results[s]))
    /\ UNCHANGED <<setupVars, searchVars, iter, gen, cli, now, pool,
                   search_tasks, event, search_results, task, cleanups, hist>>

(* _cleanup_task, after its delay *)
CleanupTask(s) ==
    /\ entry = "web"
    /\ s \in cleanups
    /\ search_tasks' = search_tasks \ {s}
    /\ cleanups' = cleanups \ {s}
    /\ UNCHANGED <<setupVars, searchVars, iter, gen, cli, now, pool, event,
                   search_results, task, response, hist>>

(* Time passes. *)
Tick ==
    /\ entry = "web"
    /\ now < MaxTicks * ClockStep
    /\ now' = now + ClockStep
    /\ UNCHANGED <<setupVars, searchVars, iter, gen, cli, pool, search_tasks,
                   event, search_results, task, cleanups, response, hist>>

(* One round of cleanup_expired_results *)
cleanup_expired_results ==
    /\ entry = "web"
    /\ search_results' = Unexpired(search_results, now)
    /\ UNCHANGED <<setupVars, searchVars, iter, gen, cli, now, pool,
                   search_tasks, event, task, cleanups, response, hist>>

WebNext ==
    \/ start_search
    \/ \E s \in AllIds : RunStart(s)
    \/ \E s \in AllIds : RunLoop(s)
    \/ \E s \in AllIds : ScanFile(s)
    \/ \E s \in AllIds : ScanRaise(s)
    \/ \E s \in AllIds : AfterBatch(s)
    \/ \E s \in AllIds : cancel_search(s)
    \/ \E s \in AllIds : get_search_status(s)
    \/ \E s \in AllIds : download_json(s)
    \/ \E s \in AllIds : CleanupTask(s)
    \/ Tick
    \/ cleanup_expired_results

Init == WebInit \/ CliInit
Next == WebNext \/ CliNext
Spec == Init /\ [][Next]_vars

(* A step of the background task of search s or of its executor thread.    *)
(* The event loop resumes every task that is ready and the executor runs     *)
(* every batch submitted to it. *)
TaskStep(s) == RunStart(s) \/ RunLoop(s) \/ ScanFile(s) \/ AfterBatch(s)
Fairness == \A s \in AllIds : WF_vars(TaskStep(s))
FairSpec == Spec /\ Fairness

(* Two searches side by side over one directory of two readable files: the *)
(* handlers and task steps that act on a search, every scan returning.       *)
TwoInit ==
    /\ entry = "web"
    /\ matcher = NoMatcher
    /\ unreadable = WebUnreadable
    /\ dir = <<"f1", "f3">>
    /\ NoSearch /\ NoIter /\ NoGen /\ NoCli
    /\ now = 0
    /\ pool = AllIds
    /\ search_tasks = {}
    /\ event = [s \in AllIds |-> FALSE]
    /\ search_results = <<>>
    /\ task = [s \in AllIds |-> IdleTask]
    /\ cleanups = {}
    /\ response = NoResponse
    /\ hist = [s \in AllIds |-> NoHistory]

TwoNext ==
    \/ start_search
    \/ \E s \in AllIds : RunStart(s)
    \/ \E s \in AllIds : RunLoop(s)
    \/ \E s \in AllIds : ScanFile(s)
    \/ \E s \in AllIds : AfterBatch(s)
    \/ \E s \in AllIds : cancel_search(s)
    \/ \E s \in AllIds : CleanupTask(s)

SpecTwo == TwoInit /\ [][TwoNext]_vars

(***************************************************************************)
(* What the claims about search speak of, defined on the text itself.       *)
(***************************************************************************)
(* The lines of a text: split on terminators, terminators stripped. *)
RECURSIVE LinesFrom(_, _, _)
LinesFrom(t, i, cur) ==
    IF i > Len(t) THEN (IF cur = <<>> THEN <<>> ELSE <<cur>>)
    ELSE IF t[i] = NL THEN <<cur>> \o LinesFrom(t, i + 1, <<>>)
    ELSE LinesFrom(t, i + 1, Append(cur, t[i]))
Lines(t) == LinesFrom(t, 1, <<>>)

(* The end offsets of the occurrences of pattern p in a line. *)
Ends(m, p, line) ==
    LET cl == Canon(m, line)
        cp == Canon(m, p)
    IN {e \in Len(p)..Len(line) : SubSeq(cl, e - Len(p) + 1, e) = cp}
Occurs(m, p, line) == Ends(m, p, line) # {}

(* 1-based indices of the lines ls with at least one occurrence. *)
MatchedLineSet(m, ls) ==
    {k \in 1..Len(ls) :
        \E i \in 1..Len(m.patterns) : Occurs(m, m.patterns[i], ls[k])}
RankIn(S, k) == Cardinality({x \in S : x <= k})

(* The distinct keyword texts occurring in a line, ordered by their first   *)
(* match event: by end offset, then by pattern id. *)
EventKey(m, i, line) ==
    LET es == Ends(m, m.patterns[i], line)
    IN (CHOOSE e \in es : \A f \in es : e <= f) * (Len(m.patterns) + 1) + i
FirstKey(m, kw, line) ==
    LET ks == {EventKey(m, i, line) : i \in {x \in 1..Len(m.patterns) : m.patterns[x] = kw}}
    IN CHOOSE a \in ks : \A b \in ks : a <= b
RECURSIVE OrderByKey(_, _)
OrderByKey(K, key) ==
    IF K = {} THEN <<>>
    ELSE LET kw == CHOOSE x \in K : \A y \in K : key[x] <= key[y]
         IN <<kw>> \o OrderByKey(K \ {kw}, key)
MatchedKeywords(m, line) ==
    LET K == {kw \in SeqRange(m.patterns) : Occurs(m, kw, line)}
    IN OrderByKey(K, [kw \in K |-> FirstKey(m, kw, line)])

NoDuplicates(s) == \A i, j \in 1..Len(s) : s[i] = s[j] => i = j

(* search has returned.  Its records come in line order, one per matched   *)
(* line: the record for line k is the one at k's rank among the matched     *)
(* lines ML. *)
Returned == called
RecordOf(ML, k) == result[RankIn(ML, k)]
HasRecord(ML, k) == RankIn(ML, k) <= Len(result)

C3_OneRecordPerLine ==
    Returned =>
        LET ls == Lines(text)
            ML == MatchedLineSet(matcher, ls)
        IN /\ Len(result) = Cardinality(ML)
           /\ \A k \in ML :
                /\ RecordOf(ML, k).keywords # <<>>
                /\ NoDuplicates(RecordOf(ML, k).keywords)
                /\ RecordOf(ML, k).keywords = MatchedKeywords(matcher, ls[k])

(* A line on which a keyword matches twice and another keyword once. *)
C3_Witness ==
    /\ Returned
    /\ LET ls == Lines(text)
           ML == MatchedLineSet(matcher, ls)
       IN \E k \in ML :
            /\ Len(RecordOf(ML, k).keywords) = 2
            /\ \E i \in 1..Len(matcher.patterns) :
                   Cardinality(Ends(matcher, matcher.patterns[i], ls[k])) = 2

(***************************************************************************)
(* C4.  Context window: the MatchInfo of the line at 0-based index i of a    *)
(* text with L lines holds exactly the lines max(0,i-c) .. min(L-1,i+c), in  *)
(* order; so at most 2c+1 lines, and fewer only at the start or the end.     *)
(***************************************************************************)
C4_ContextWindow ==
    Returned =>
        LET ls == Lines(text)
            ML == MatchedLineSet(matcher, ls)
            c == matcher.context
            L == Len(ls)
        IN \A k \in ML :
               /\ HasRecord(ML, k)
               /\ RecordOf(ML, k).lines = SubSeq(ls, Max(1, k - c), Min(L, k + c))
               /\ Len(RecordOf(ML, k).lines) <= 2 * c + 1
               /\ Len(RecordOf(ML, k).lines) < 2 * c + 1 =>
                      (k - c < 1 \/ k + c > L)

(* A match on a middle line with a full window, and one on the first line   *)
(* with a shortened window. *)
C4_Witness ==
    /\ Returned
    /\ matcher.context = 1
    /\ LET ls == Lines(text)
           ML == MatchedLineSet(matcher, ls)
       IN /\ {1, 2} \subseteq ML
          /\ Len(ls) = 3
          /\ Len(RecordOf(ML, 2).lines) = 3
          /\ Len(RecordOf(ML, 1).lines) = 2

(***************************************************************************)
(* C2.  File-failure isolation: over any list of paths in which a file       *)
(* cannot be opened or read, search_files_iter does not raise, ends          *)
(* normally, and yields exactly the matches of the other files, in order     *)
(* (the unreadable file is skipped, the files after it are still scanned).   *)
(***************************************************************************)
ReadablePaths(ps, bad) == SelectSeq(ps, LAMBDA p : p \notin bad)
MatchesOfFile(m, p) == WithPath(Search(m, FileContent(p)), p)
MatchesOfFiles(m, ps) ==
    Concat([j \in 1..Len(ps) |-> MatchesOfFile(m, ps[j])])

C2_FileFailureIsolation ==
    entry = "files" =>
        /\ iter.status # "raised"
        /\ iter.yielded =
               MatchesOfFiles(matcher,
                   ReadablePaths(SubSeq(iter.paths, 1, iter.pos), unreadable))
        /\ iter.status = "exhausted" => iter.pos = Len(iter.paths)
        /\ SeqRange(iter.diagnostics) =
               SeqRange(SubSeq(iter.paths, 1, iter.pos)) \cap unreadable

(* Three paths, the middle one unreadable, matches before and after it. *)
C2_Witness ==
    /\ entry = "files"
    /\ iter.status = "exhausted"
    /\ Len(iter.paths) = 3
    /\ iter.paths[2] \in unreadable
    /\ iter.paths[1] \notin unreadable
    /\ iter.paths[3] \notin unreadable
    /\ iter.yielded # <<>>
    /\ iter.yielded[1].file_path = iter.paths[1]
    /\ iter.yielded[Len(iter.yielded)].file_path = iter.paths[3]

(***************************************************************************)
(* C6.  batched partitions its input: only non-empty lists are yielded,      *)
(* every list but possibly the last has exactly `size` elements, the last    *)
(* has between 1 and `size`, and the concatenation of the lists is the       *)
(* input in its order (an empty input yields no batch).                      *)
(***************************************************************************)
C6_BatchedPartitions ==
    entry = "batched" =>
        /\ \A j \in 1..Len(gen.out) :
               /\ gen.out[j] # <<>>
               /\ Len(gen.out[j]) <= gen.size
               /\ j < Len(gen.out) => Len(gen.out[j]) = gen.size
        /\ Concat(gen.out) = SubSeq(gen.src, 1, gen.pos)
        /\ gen.done => Concat(gen.out) = gen.src
        /\ (gen.done /\ gen.src = <<>>) => gen.out = <<>>

(* An input whose length is no multiple of the size: a short last batch. *)
C6_Witness ==
    /\ entry = "batched"
    /\ gen.done
    /\ gen.size = 2
    /\ Len(gen.src) = 3
    /\ Len(gen.out) = 2
    /\ Len(gen.out[2]) = 1

(***************************************************************************)
(* What the claims about the job layer speak of.                            *)
(***************************************************************************)
Started(s) == task[s].pc \notin {"none", "queued"}
Ended(s) == task[s].pc \in {"done", "failed", "crashed"}
Stored(s) == s \in DOMAIN search_results
IsPrefix(a, b) == Len(a) <= Len(b) /\ a = SubSeq(b, 1, Len(a))
(* A keyword list that is empty, or all blank after trimming. *)
Invalid(v) == v = <<>> \/ \A j \in 1..Len(v) : Strip(v[j]) = <<>>

(***************************************************************************)
(* C5.  Batched scanning preserves the sequential result order: while no    *)
(* scan fails, the matches run_full_search has accumulated are those one     *)
(* sequential search_files_iter call yields over the files of the batches    *)
(* scanned so far, which are a prefix of the file list; when its loop ends   *)
(* uncancelled they are those of the whole file list, and they are what is   *)
(* stored.  scan_dir_async likewise yields the sequential result, for every  *)
(* batch size.                                                               *)
(***************************************************************************)
C5_BatchedScanPreservesOrder ==
    /\ entry = "web" =>
        \A s \in AllIds :
            (Started(s) /\ Built(task[s].matcher) /\ ~hist[s].failed) =>
                LET t == task[s]
                IN /\ IsPrefix(hist[s].scanned, t.files)
                   /\ t.all_matches =
                          SearchFilesIter(t.matcher, hist[s].scanned, unreadable)
                   /\ (t.pc = "done" /\ ~hist[s].cancelled) =>
                          /\ t.all_matches =
                                 SearchFilesIter(t.matcher, t.files, unreadable)
                          /\ Stored(s) =>
                                 search_results[s].results = t.all_matches
    /\ entry = "cli" =>
        /\ cli.pc \notin {"idle", "done"} =>
               cli.yielded \o cli.results =
                   SearchFilesIter(matcher, Concat(gen.out), unreadable)
        /\ cli.pc = "done" =>
               cli.yielded = SearchFilesIter(matcher, dir, unreadable)

(* Three files in batches of two, the search run to its end: matches of the *)
(* first batch and of the second, in that order. *)
C5_Witness ==
    /\ entry = "web"
    /\ task["s1"].pc = "done"
    /\ ~hist["s1"].cancelled
    /\ ~hist["s1"].failed
    /\ task["s1"].req.batch_size = 2
    /\ Len(task["s1"].files) = 3
    /\ Len(task["s1"].all_matches) >= 2
    /\ task["s1"].all_matches[1].file_path = "f1"
    /\ task["s1"].all_matches[Len(task["s1"].all_matches)].file_path = "f3"
    /\ Stored("s1")
    /\ search_results["s1"].results = task["s1"].all_matches

(***************************************************************************)
(* C7.  Cancellation at file granularity: once cancel_search has set the    *)
(* event of a search, no file that was not opened by then is opened for      *)
(* that search.                                                              *)
(***************************************************************************)
C7_NoFileOpenedAfterCancel ==
    \A s \in AllIds :
        hist[s].cancelled => hist[s].opened = hist[s].openedAtCancel

(***************************************************************************)
(* C8.  Cancellation keeps the results already produced: a cancelled        *)
(* search's task eventually ends, and once it has ended the stored results   *)
(* are, in order, the matches of the files of every batch whose scan         *)
(* completed.                                                                *)
(***************************************************************************)
KeptAfterCancel ==
    \A s \in AllIds :
        (hist[s].cancelled /\ Ended(s) /\ Stored(s)) =>
            search_results[s].results =
                SearchFilesIter(task[s].matcher, hist[s].scanned, unreadable)

C8_CancellationKeepsResults ==
    /\ []KeptAfterCancel
    /\ \A s \in AllIds : hist[s].cancelled ~> Ended(s)

(* Cancelled after the first of two batches: its matches are stored. *)
C8_Witness ==
    /\ entry = "web"
    /\ hist["s1"].cancelled
    /\ task["s1"].pc = "done"
    /\ Stored("s1")
    /\ search_results["s1"].error = UserCancelled
    /\ hist["s1"].scanned # <<>>
    /\ Len(hist["s1"].scanned) < Len(task["s1"].files)
    /\ search_results["s1"].results # <<>>

(***************************************************************************)
(* C9.  A scan failure never loses yielded results: when a scan of a search *)
(* has raised, every match search_files_iter yielded for that search is in   *)
(* the results stored at its end.                                            *)
(***************************************************************************)
C9_FailureKeepsYielded ==
    \A s \in AllIds :
        (hist[s].failed /\ task[s].pc = "done" /\ Stored(s)) =>
            \A j \in 1..Len(hist[s].yielded) :
                hist[s].yielded[j] \in SeqRange(search_results[s].results)

(***************************************************************************)
(* C10.  Keywords are validated before any job exists: a request whose      *)
(* keyword list is empty or all blank after trimming is rejected and         *)
(* changes neither search_results nor search_tasks nor any task or scan;     *)
(* every search that exists, and every matcher built, has a non-empty list   *)
(* of non-empty trimmed keywords.                                            *)
(***************************************************************************)
ValidKeywords ==
    \A s \in AllIds :
        /\ task[s].pc # "none" =>
               /\ task[s].req.keywords # <<>>
               /\ \A j \in 1..Len(task[s].req.keywords) :
                      /\ task[s].req.keywords[j] # <<>>
                      /\ Strip(task[s].req.keywords[j]) = task[s].req.keywords[j]
        /\ Started(s) =>
               /\ Built(task[s].matcher)
               /\ task[s].matcher.patterns = task[s].req.keywords
        /\ Stored(s) => search_results[s].error # EmptyPatternSet

RejectedBeforeAnyJob ==
    (response' # response /\ response'.op = "start-search"
        /\ Invalid(response'.raw)) =>
            /\ response'.status = "rejected"
            /\ UNCHANGED <<search_results, search_tasks, task, pool, event, hist>>

C10_ValidatedBeforeAnyJob ==
    /\ []ValidKeywords
    /\ [][RejectedBeforeAnyJob]_vars

(* An all-blank request rejected beside a search whose matcher was built. *)
C10_Witness ==
    /\ entry = "web"
    /\ response.op = "start-search"
    /\ response.status = "rejected"
    /\ response.raw # <<>>
    /\ Invalid(response.raw)
    /\ DOMAIN search_results = {"s1"}
    /\ search_tasks = {"s1"}
    /\ Started("s1")
    /\ Built(task["s1"].matcher)

(***************************************************************************)
(* C11.  Reported progress is processed / total: whenever get_search_status *)
(* reports a total above 0, the progress it reports equals processed /       *)
(* total, also after a cancellation.                                         *)
(***************************************************************************)
SameFraction(f, n, d) == f.num * d = n * f.den

C11_ProgressIsProcessedOverTotal ==
    (response.op = "search-status" /\ response.status = "200") =>
        \A b \in response.body :
            b.total > 0 => SameFraction(b.progress, b.processed, b.total)

(***************************************************************************)
(* C12.  cancel_search rejects searches that do not exist or have finished: *)
(* for a search never started, or whose run_full_search has ended, it        *)
(* answers 404 and leaves the stored completed flag, error and results as    *)
(* they were.                                                                *)
(***************************************************************************)
StoredOutcome(rs, s) ==
    IF s \in DOMAIN rs
    THEN {[completed |-> rs[s].completed, error |-> rs[s].error,
           results |-> rs[s].results, count |-> rs[s].count]}
    ELSE {}

CancelOfFinishedRejected ==
    \A s \in AllIds :
        (cancel_search(s) /\ (task[s].pc = "none" \/ Ended(s))) =>
            /\ response'.status = "404"
            /\ StoredOutcome(search_results', s) = StoredOutcome(search_results, s)

C12_CancelRejectsFinished == [][CancelOfFinishedRejected]_vars

(***************************************************************************)
(* C13.  Case folding does not hide requested patterns: with ignore_case,   *)
(* when distinct original patterns fold to the same string, every line with  *)
(* an occurrence of the folded form yields a MatchInfo that lists each of    *)
(* those original texts exactly once, with the line number the canonical     *)
(* form alone is reported at.                                                *)
(***************************************************************************)
FoldTwins(m) ==
    {pq \in SeqRange(m.patterns) \X SeqRange(m.patterns) :
        pq[1] # pq[2] /\ FoldStr(pq[1]) = FoldStr(pq[2])}
Contains(line, p) ==
    \E e \in Len(p)..Len(line) : SubSeq(line, e - Len(p) + 1, e) = p
CountIn(kws, kw) == Cardinality({j \in 1..Len(kws) : kws[j] = kw})
(* The line number search reports for line k with the canonical form as     *)
(* the only pattern. *)
CanonicalLineNo(m, c, ls, k) ==
    LET cm == NewMatcher(<<c>>, TRUE, m.context, m.with_lineno)
        found == Search(cm, text)
        rank == Cardinality({x \in 1..k : Contains(FoldStr(ls[x]), c)})
    IN found[rank].line_no

C13_FoldingKeepsOriginals ==
    (Returned /\ matcher.ignore_case) =>
        LET ls == Lines(text)
            ML == MatchedLineSet(matcher, ls)
        IN \A pq \in FoldTwins(matcher), k \in 1..Len(ls) :
            Contains(FoldStr(ls[k]), FoldStr(pq[1])) =>
                /\ HasRecord(ML, k)
                /\ CountIn(RecordOf(ML, k).keywords, pq[1]) = 1
                /\ CountIn(RecordOf(ML, k).keywords, pq[2]) = 1
                /\ RecordOf(ML, k).line_no =
                       CanonicalLineNo(matcher, FoldStr(pq[1]), ls, k)

(* Patterns "a" and "A", line numbers on, a match on the second line. *)
C13_Witness ==
    /\ Returned
    /\ matcher.ignore_case
    /\ matcher.with_lineno
    /\ matcher.patterns = <<<<"a">>, <<"A">>>>
    /\ \E j \in 1..Len(result) :
           /\ result[j].line_no = 2
           /\ result[j].keywords = <<<<"a">>, <<"A">>>>

(***************************************************************************)
(* C14.  The event is checked before every batch: once the event of a       *)
(* search is set no further batch is submitted to the executor (the batch    *)
(* in flight may finish), and a batch is submitted only when every earlier   *)
(* batch of the search has returned.                                         *)
(***************************************************************************)
InFlight(s) == IF task[s].pc = "scanning" THEN Len(task[s].batch) ELSE 0

C14_NoBatchAfterCancel ==
    \A s \in AllIds :
        /\ hist[s].cancelled => hist[s].submitted = hist[s].submittedAtCancel
        /\ hist[s].submitted = task[s].processed_files + InFlight(s)
        /\ hist[s].opened <= hist[s].submitted

(* Cancelled while the first of two batches was in flight: that batch       *)
(* finished, the second was never submitted. *)
C14_Witness ==
    /\ entry = "web"
    /\ hist["s1"].cancelled
    /\ task["s1"].pc = "done"
    /\ hist["s1"].openedAtCancel < hist["s1"].submittedAtCancel
    /\ hist["s1"].opened = hist["s1"].submitted
    /\ hist["s1"].submitted > 0
    /\ hist["s1"].submitted < Len(task["s1"].files)

(***************************************************************************)
(* C15.  Completed results are final: once the completed flag of a stored   *)
(* search is true, its stored results, count and error never change.         *)
(***************************************************************************)
CompletedStaysAsIs ==
    \A s \in AllIds :
        (Stored(s) /\ search_results[s].completed /\ s \in DOMAIN search_results') =>
            /\ search_results'[s].results = search_results[s].results
            /\ search_results'[s].count = search_results[s].count
            /\ search_results'[s].error = search_results[s].error

C15_CompletedIsFinal == [][CompletedStaysAsIs]_vars

(***************************************************************************)
(* C16.  No exception escapes run_full_search: whatever cancel_search and    *)
(* cleanup_expired_results do meanwhile, a failure inside it is caught and   *)
(* the task ends with completed = true recorded for its search.              *)
(***************************************************************************)
C16_NoExceptionEscapes ==
    \A s \in AllIds :
        /\ task[s].pc # "crashed"
        /\ (Ended(s) /\ Stored(s)) => search_results[s].completed

(***************************************************************************)
(* C17.  Searches are isolated: a step of start_search, run_full_search,    *)
(* its executor, cancel_search or _cleanup_task for search A leaves the      *)
(* search_results entry, the search_tasks entry, the event and the task of   *)
(* every other search B as they were; cancelling A neither stops nor         *)
(* alters B.                                                                 *)
(***************************************************************************)
Untouched(b) ==
    /\ (b \in DOMAIN search_results) = (b \in DOMAIN search_results')
    /\ b \in DOMAIN search_results => search_results'[b] = search_results[b]
    /\ (b \in search_tasks) = (b \in search_tasks')
    /\ event'[b] = event[b]
    /\ task'[b] = task[b]
    /\ hist'[b] = hist[b]

ActsOn(a) ==
    \/ RunStart(a) \/ RunLoop(a) \/ ScanFile(a) \/ ScanRaise(a)
    \/ AfterBatch(a) \/ cancel_search(a) \/ CleanupTask(a)

(* Stated contrapositively: a step that touches B is no step on A. *)
OthersUntouched ==
    \A b \in AllIds :
        Untouched(b) \/
            /\ \A a \in AllIds \ {b} : ~ActsOn(a)
            /\ task[b].pc # "none" => ~start_search

C17_SearchesIsolated == [][OthersUntouched]_vars

(* Two searches ran together; s1 was cancelled before its second batch,     *)
(* s2 ran to its end and stored the matches of the whole listing. *)
C17_Witness ==
    /\ entry = "web"
    /\ task["s1"].pc = "done" /\ task["s2"].pc = "done"
    /\ hist["s1"].cancelled /\ ~hist["s2"].cancelled
    /\ ~hist["s2"].failed
    /\ hist["s1"].submitted < Len(task["s1"].files)
    /\ hist["s1"].submittedAtCancel > 0
    /\ hist["s2"].opened > hist["s2"].openedAtCancel
    /\ Stored("s1") /\ Stored("s2")
    /\ search_results["s2"].error = None
    /\ search_results["s2"].results =
           SearchFilesIter(task["s2"].matcher, task["s2"].files, unreadable)

(***************************************************************************)
(* C18.  Results are retained for one hour: only cleanup_expired_results    *)
(* removes an entry of search_results, and only when more than               *)
(* SEARCH_RESULT_EXPIRE seconds have passed since its create_time; until     *)
(* then the entry is stored and get_search_status does not answer 404.       *)
(***************************************************************************)
Age(s) == now - hist[s].created

RetainedForAnHour ==
    /\ \A s \in AllIds :
        (task[s].pc # "none" /\ Age(s) <= SEARCH_RESULT_EXPIRE) =>
            /\ Stored(s)
            /\ search_results[s].create_time = hist[s].created
    /\ (response.op = "search-status" /\ response.status = "404"
            /\ task[response.id].pc # "none") =>
                Age(response.id) > SEARCH_RESULT_EXPIRE

RemovedOnlyByExpiry ==
    \A s \in AllIds :
        (Stored(s) /\ s \notin DOMAIN search_results') =>
            /\ now - search_results[s].create_time > SEARCH_RESULT_EXPIRE
            /\ cleanup_expired_results

C18_RetainedForAnHour ==
    /\ []RetainedForAnHour
    /\ [][RemovedOnlyByExpiry]_vars

(* A search whose entry was removed after more than an hour, then asked     *)
(* for. *)
C18_Witness ==
    /\ entry = "web"
    /\ task["s1"].pc # "none"
    /\ Age("s1") > SEARCH_RESULT_EXPIRE
    /\ ~Stored("s1")
    /\ response.op = "search-status"
    /\ response.id = "s1"
    /\ response.status = "404"

(***************************************************************************)
(* C19.  Progress bookkeeping is bounded and monotone: for every stored     *)
(* search 0 <= processed <= total files enumerated and 0 <= progress <= 1,   *)
(* and the stored processed count and progress never decrease.               *)
(***************************************************************************)
FractionLeq(f, g) == f.num * g.den <= g.num * f.den

ProgressBounded ==
    \A s \in AllIds :
        Stored(s) =>
            LET r == search_results[s]
            IN /\ 0 <= r.processed
               /\ r.processed <= task[s].total_files
               /\ r.processed <= r.total
               /\ r.total \in {0, task[s].total_files}
               /\ r.progress.den > 0
               /\ FractionLeq(Zero, r.progress)
               /\ FractionLeq(r.progress, One)

ProgressMonotone ==
    \A s \in AllIds :
        (Stored(s) /\ s \in DOMAIN search_results') =>
            /\ search_results[s].processed <= search_results'[s].processed
            /\ FractionLeq(search_results[s].progress, search_results'[s].progress)

C19_ProgressBoundedMonotone ==
    /\ []ProgressBounded
    /\ [][ProgressMonotone]_vars

(* Two of three files processed, the third batch still to come. *)
C19_Witness ==
    /\ entry = "web"
    /\ Stored("s1")
    /\ task["s1"].pc = "scanning"
    /\ search_results["s1"].processed = 2
    /\ search_results["s1"].total = 3
    /\ search_results["s1"].progress = Fraction(2, 3)

====
